---- MODULE Spec2Model ----
(***************************************************************************)
(* SBCK.OTC, the Optimal Transport bias Corrector (python/SBCK/__OTC.py).  *)
(*                                                                         *)
(* State: the attributes of each OTC instance (muX, muY, bin_width,        *)
(* bin_origin, _plan, _ot), the solver objects they refer to (the object   *)
(* built once for the default argument of __init__, the objects handed to  *)
(* __init__ by the caller, the OTSinkhornLogDual objects built by fit),    *)
(* and a record of what the last call did.                                 *)
(*                                                                         *)
(*   otc[c]   the attributes of corrector c; plan and ot are the           *)
(*            attributes _plan and _ot, ot holding the identity of a       *)
(*            solver object                                                *)
(*   args[c]  the arguments the constructor of c was called with           *)
(*   heap     the solver objects, by identity: kind, state flag, plan      *)
(*   last     the last call: its inputs, what it ran and what it returned  *)
(*                                                                         *)
(* Numbers: samples have integer coordinates; a bin center is kept as      *)
(* twice its value (origin + (index + 1/2) * width), so that it stays an   *)
(* integer; a plan entry after normalisation is a fraction <<n, d>> in     *)
(* lowest terms, and 0/0 (numpy's nan) is <<0, 0>>.                        *)
(* Python's None is the empty sequence for a vector, a matrix or a plan,   *)
(* and NoHist for a histogram.  Indices are 1-based.                       *)
(***************************************************************************)
EXTENDS Integers, Sequences, FiniteSets

VARIABLES otc, args, heap, last

vars == <<otc, args, heap, last>>

(* The entries of a raw transport plan returned by a solver. *)
Masses == {0, 1}

(* Largest number of rows of a query matrix handed to predict. *)
MaxQuery == 2

None == <<>>

NaN == <<0, 0>>

(***************************************************************************)
(* Inputs.                                                                 *)
(***************************************************************************)

(* Sample matrices (n_samples x n_features) handed to fit. *)
Samples ==
    { << <<0>> >>, << <<0>>, <<3>> >>, << <<0, 0>>, <<1, 3>> >> }

(* Rows a query matrix is made of. *)
QueryRows == { <<0>>, <<3>>, <<0, 0>> }

(* bin_width and bin_origin arguments of __init__ (None: not supplied).    *)
(* A scalar argument is the vector of length 1.                            *)
WidthArgs == { None, <<1>>, <<0>>, <<1, 1>> }

OriginArgs == { None, <<1>>, <<0, 0>> }

(* ot argument of __init__: not supplied (the default object), or an       *)
(* object of the caller: any object with fit, state and plan.              *)
OtArgs == { "default", "custom" }

n_features(X) == Len(X[1])

(***************************************************************************)
(* Arithmetic helpers.                                                     *)
(***************************************************************************)

RECURSIVE GCD(_, _)
GCD(a, b) == IF b = 0 THEN a ELSE GCD(b, a % b)

RECURSIVE SumSeq(_)
SumSeq(s) == IF s = <<>> THEN 0 ELSE s[1] + SumSeq(Tail(s))

(* a / s in floating point, for a >= 0 and s >= 0: 0/0 is nan. *)
Div(a, s) ==
    IF s = 0 THEN NaN ELSE <<a \div GCD(a, s), s \div GCD(a, s)>>

IsNaN(q) == q[2] = 0

(* p + q; a sum with a nan is nan. *)
FracAdd(p, q) ==
    LET n == p[1] * q[2] + q[1] * p[2]
        d == p[2] * q[2]
    IN  IF IsNaN(p) \/ IsNaN(q) THEN NaN
        ELSE <<n \div GCD(n, d), d \div GCD(n, d)>>

RECURSIVE FracSum(_)
FracSum(row) ==
    IF row = <<>> THEN <<0, 1>> ELSE FracAdd(row[1], FracSum(Tail(row)))

(* np.array( [v] ).ravel(): the flat vector of the components of v. *)
ravel(v) == [i \in 1..Len(v) |-> v[i]]

(* np.zeros( n ) *)
zeros(n) == [i \in 1..n |-> 0]

(***************************************************************************)
(* Collaborators of OTC whose code is outside OTC.py: the histogram, the   *)
(* bin width estimator, the solvers and numpy's random choice.             *)
(***************************************************************************)

Max(S) == CHOOSE m \in S : \A x \in S : x <= m

Min(S) == CHOOSE m \in S : \A x \in S : m <= x

(* bin_width_estimator( [Y0,X0] ): one positive width per feature, from    *)
(* the spread of the two datasets taken together.                          *)
bin_width_estimator(Y0, X0) ==
    [i \in 1..n_features(Y0) |->
        LET col == { Y0[k][i] : k \in 1..Len(Y0) } \cup { X0[k][i] : k \in 1..Len(X0) }
        IN  1 + ((Max(col) - Min(col)) \div 2)]

NoHist == [built |-> FALSE, bin_width |-> None, bin_origin |-> None,
           bins |-> <<>>, c |-> <<>>]

(* The grid fits the data: one positive width and one origin per feature. *)
ValidGrid(X, bin_width, bin_origin) ==
    /\ Len(bin_width) = n_features(X)
    /\ Len(bin_origin) = n_features(X)
    /\ \A i \in 1..Len(bin_width) : bin_width[i] > 0

(* Index vector of the bin of row x: floor((x - bin_origin) / bin_width). *)
BinIndex(x, bin_width, bin_origin) ==
    [i \in 1..Len(x) |-> (x[i] - bin_origin[i]) \div bin_width[i]]

InSeq(s, e) == \E k \in 1..Len(s) : s[k] = e

(* The distinct elements of s, in order of first occurrence. *)
RECURSIVE Occupied(_, _)
Occupied(s, acc) ==
    IF s = <<>> THEN acc
    ELSE Occupied(Tail(s), IF InSeq(acc, s[1]) THEN acc ELSE Append(acc, s[1]))

(* SparseHist( X , bin_width , bin_origin ), for a grid that fits X: the   *)
(* occupied bins in a fixed order and their centers (doubled).             *)
SparseHist(X, bin_width, bin_origin) ==
    LET bins == Occupied([k \in 1..Len(X) |-> BinIndex(X[k], bin_width, bin_origin)], <<>>)
    IN  [built |-> TRUE, bin_width |-> bin_width, bin_origin |-> bin_origin,
         bins |-> bins,
         c |-> [k \in 1..Len(bins) |->
                  [i \in 1..Len(bin_width) |->
                     2 * bin_origin[i] + 2 * bins[k][i] * bin_width[i] + bin_width[i]]]]

size(mu) == Len(mu.bins)

(* SparseHist.argwhere on one row: the index of its bin when the bin is    *)
(* occupied.  For a row outside every occupied bin the result is not       *)
(* defined: any index, or a refusal (0).                                   *)
argwhere(mu, x) ==
    LET b == BinIndex(x, mu.bin_width, mu.bin_origin)
    IN  IF InSeq(mu.bins, b)
        THEN { k \in 1..size(mu) : mu.bins[k] = b }
        ELSE 0..size(mu)

InSupport(mu, x) == InSeq(mu.bins, BinIndex(x, mu.bin_width, mu.bin_origin))

(* The raw plans a solver can hand back for nx source and ny target bins:  *)
(* matrices of non-negative flows.                                         *)
Plans(nx, ny) == [1..nx -> [1..ny -> Masses]]

Solved(P) == [raised |-> FALSE, state |-> TRUE, plan |-> P]

Failed == [raised |-> FALSE, state |-> FALSE, plan |-> None]

Raised == [raised |-> TRUE, state |-> FALSE, plan |-> None]

(* What solver.fit( muX , muY ) can do, by the solver's kind: the entropic *)
(* solver always ends with state true, the network simplex may end with    *)
(* state false, an object of the caller may also raise.                    *)
SolveOutcomes(kind, muX, muY) ==
    { Solved(P) : P \in Plans(size(muX), size(muY)) }
      \cup (IF kind \in {"OTNetworkSimplex", "custom"} THEN {Failed} ELSE {})
      \cup (IF kind = "custom" THEN {Raised} ELSE {})

(* np.random.choice( range(n) , p = p ): an index of positive probability; *)
(* refused (the empty set) when p has not n entries, holds a nan or does   *)
(* not sum to 1.                                                           *)
choice(n, p) ==
    IF \/ Len(p) # n
       \/ \E j \in 1..Len(p) : IsNaN(p[j])
       \/ FracSum(p) # <<1, 1>>
    THEN {}
    ELSE { j \in 1..n : p[j][1] > 0 }

(***************************************************************************)
(* Solver objects.                                                         *)
(***************************************************************************)

(* The object built once, when the class is defined, for the default of    *)
(* the ot argument of __init__.                                            *)
DefaultOT == <<"default", 0>>

(* The object the caller hands to the constructor of corrector c. *)
ArgOT(c) == <<"arg", c>>

(* The OTSinkhornLogDual object built by a fit of corrector c. *)
FallbackOT(c) == <<"fallback", c>>

Unallocated == [kind |-> "unallocated", state |-> FALSE, plan |-> None, by |-> 0]

(* A solver object on which fit has not run yet. *)
NewSolver(kind) == [kind |-> kind, state |-> FALSE, plan |-> None, by |-> 0]

(* The solver object after corrector c ran its fit with outcome r; `by` is *)
(* the corrector whose fit ran it last.                                    *)
Solve(obj, c, r) ==
    IF r.raised THEN [obj EXCEPT !.by = c]
    ELSE [obj EXCEPT !.state = r.state, !.plan = r.plan, !.by = c]

(***************************************************************************)
(* OTC.__init__                                                            *)
(***************************************************************************)

OTC_init(c, a) ==
    [muX |-> NoHist, muY |-> NoHist,
     bin_width |-> a.bin_width, bin_origin |-> a.bin_origin,
     plan |-> None,
     ot |-> IF a.ot = "default" THEN DefaultOT ELSE ArgOT(c)]

NoCall == [op |-> "init", self |-> 0, result |-> "ok", Y0 |-> <<>>, X0 |-> <<>>,
           built |-> 0, ran |-> <<>>, solved |-> 0, warned |-> FALSE,
           X |-> <<>>, Z |-> <<>>]

(* The state after the correctors Cs are constructed, with arguments from  *)
(* W (bin_width), O (bin_origin) and T (ot).                               *)
InitWith(Cs, W, O, T) ==
    /\ args \in [Cs -> [bin_width : W, bin_origin : O, ot : T]]
    /\ otc = [c \in Cs |-> OTC_init(c, args[c])]
    /\ heap = [id \in {DefaultOT} \cup { ArgOT(c) : c \in Cs } \cup { FallbackOT(c) : c \in Cs } |->
                 IF id = DefaultOT THEN NewSolver("OTNetworkSimplex")
                 ELSE IF id[1] = "arg" /\ args[id[2]].ot # "default"
                      THEN NewSolver(args[id[2]].ot)
                      ELSE Unallocated]
    /\ last = NoCall

(***************************************************************************)
(* OTC.fit                                                                 *)
(***************************************************************************)

FitBinWidth(self, Y0, X0) ==
    ravel(IF self.bin_width # None THEN ravel(self.bin_width)
          ELSE bin_width_estimator(Y0, X0))

(* The bin_origin argument ignored: always the zero vector. *)
FitBinOrigin_IgnoreArg(self) == zeros(Len(self.bin_width))

FitBinOrigin(self) ==
    ravel(IF self.bin_origin # None THEN ravel(self.bin_origin)
          ELSE zeros(Len(self.bin_width)))

BuildMuY(self, Y0) == SparseHist(Y0, self.bin_width, self.bin_origin)

(* muX built without the bin_origin of the corrector. *)
BuildMuX_DefaultOrigin(self, X0) ==
    SparseHist(X0, self.bin_width, zeros(Len(self.bin_width)))

BuildMuX(self, X0) == SparseHist(X0, self.bin_width, self.bin_origin)

(* ( plan.T / plan.sum( axis = 1 ) ).T : each entry over the sum of its row *)
Normalize(P) ==
    [i \in 1..Len(P) |-> [j \in 1..Len(P[i]) |-> Div(P[i][j], SumSeq(P[i]))]]

(* What a call of fit did: the histograms it built (0, 1: muY, 2: muY and  *)
(* muX), the solver objects it ran in order, how many of these runs        *)
(* returned, and whether it printed the warning.                           *)
FitCall(c, Y0, X0, result, built, ran, solved, warned) ==
    [op |-> "fit", self |-> c, result |-> result, Y0 |-> Y0, X0 |-> X0,
     built |-> built, ran |-> ran, solved |-> solved, warned |-> warned,
     X |-> <<>>, Z |-> <<>>]

(* The test of the state flag left out: the first plan is always taken. *)
Retry_Never(r) == FALSE

(* if not self._ot.state *)
Retry(r) == ~r.state

(* The plan kept without np.copy and normalised in place: every corrector  *)
(* that holds the solver object and a plan sees the plan of the last run.  *)
FitSolve_SharesPlan(c, self, Y0, X0) ==
    \E r1 \in SolveOutcomes(heap[self.ot].kind, self.muX, self.muY) :
        LET heap1 == [heap EXCEPT ![self.ot] = Solve(@, c, r1)]
        IN  IF r1.raised
            THEN /\ otc' = [otc EXCEPT ![c] = self]
                 /\ heap' = heap1
                 /\ last' = FitCall(c, Y0, X0, "error", 2, <<self.ot>>, 0, FALSE)
            ELSE IF Retry(r1)
            THEN \E r2 \in SolveOutcomes("OTSinkhornLogDual", self.muX, self.muY) :
                   /\ otc' = [otc EXCEPT ![c] =
                                [self EXCEPT !.ot = FallbackOT(c),
                                             !.plan = Normalize(r2.plan)]]
                   /\ heap' = [heap1 EXCEPT ![FallbackOT(c)] =
                                 Solve(NewSolver("OTSinkhornLogDual"), c, r2)]
                   /\ last' = FitCall(c, Y0, X0, "ok", 2, <<self.ot, FallbackOT(c)>>, 2, TRUE)
            ELSE /\ otc' = [d \in DOMAIN otc |->
                              IF d = c THEN [self EXCEPT !.plan = Normalize(r1.plan)]
                              ELSE IF otc[d].ot = self.ot /\ otc[d].plan # None
                                   THEN [otc[d] EXCEPT !.plan = Normalize(r1.plan)]
                                   ELSE otc[d]]
                 /\ heap' = heap1
                 /\ last' = FitCall(c, Y0, X0, "ok", 2, <<self.ot>>, 1, FALSE)

(* The solving part of fit, from the histograms on: self already holds the *)
(* grid and muY, muX.                                                      *)
FitSolve(c, self, Y0, X0) ==
    \E r1 \in SolveOutcomes(heap[self.ot].kind, self.muX, self.muY) :
        LET heap1 == [heap EXCEPT ![self.ot] = Solve(@, c, r1)]
        IN  IF r1.raised
            THEN /\ otc' = [otc EXCEPT ![c] = self]
                 /\ heap' = heap1
                 /\ last' = FitCall(c, Y0, X0, "error", 2, <<self.ot>>, 0, FALSE)
            ELSE IF Retry(r1)
            THEN \E r2 \in SolveOutcomes("OTSinkhornLogDual", self.muX, self.muY) :
                   /\ otc' = [otc EXCEPT ![c] =
                                [self EXCEPT !.ot = FallbackOT(c),
                                             !.plan = Normalize(r2.plan)]]
                   /\ heap' = [heap1 EXCEPT ![FallbackOT(c)] =
                                 Solve(NewSolver("OTSinkhornLogDual"), c, r2)]
                   /\ last' = FitCall(c, Y0, X0, "ok", 2, <<self.ot, FallbackOT(c)>>, 2, TRUE)
            ELSE /\ otc' = [otc EXCEPT ![c] = [self EXCEPT !.plan = Normalize(r1.plan)]]
                 /\ heap' = heap1
                 /\ last' = FitCall(c, Y0, X0, "ok", 2, <<self.ot>>, 1, FALSE)

(* fit( Y0 , X0 ) on corrector c.  SparseHist refuses a grid that does not *)
(* fit the data, and fit ends there with what it has assigned so far.      *)
Fit(c, Y0, X0) ==
    LET w  == [otc[c] EXCEPT !.bin_width = FitBinWidth(otc[c], Y0, X0)]
        g  == [w EXCEPT !.bin_origin = FitBinOrigin(w)]
    IN  /\ args' = args
        /\ IF ~ValidGrid(Y0, g.bin_width, g.bin_origin)
           THEN /\ otc' = [otc EXCEPT ![c] = g]
                /\ heap' = heap
                /\ last' = FitCall(c, Y0, X0, "error", 0, <<>>, 0, FALSE)
           ELSE LET y == [g EXCEPT !.muY = BuildMuY(g, Y0)]
                IN  IF ~ValidGrid(X0, y.bin_width, y.bin_origin)
                    THEN /\ otc' = [otc EXCEPT ![c] = y]
                         /\ heap' = heap
                         /\ last' = FitCall(c, Y0, X0, "error", 1, <<>>, 0, FALSE)
                    ELSE FitSolve(c, [y EXCEPT !.muX = BuildMuX(y, X0)], Y0, X0)

(***************************************************************************)
(* OTC.predict                                                             *)
(***************************************************************************)

(* No row: one row of the query could not be corrected (an exception). *)
NoRow == <<>>

(* The draw made without p: any target bin. *)
PredictRow_AnyBin(self, x) ==
    UNION { IF ix = 0 \/ self.plan = None \/ ix > Len(self.plan)
            THEN {NoRow}
            ELSE { self.muY.c[j] : j \in 1..size(self.muY) }
          : ix \in argwhere(self.muX, x) }

(* The rows predict can produce for the query row x: for each index ix     *)
(* argwhere can give, a draw from row ix of the plan.                      *)
PredictRow(self, x) ==
    UNION { IF ix = 0 \/ self.plan = None \/ ix > Len(self.plan)
            THEN {NoRow}
            ELSE LET js == choice(size(self.muY), self.plan[ix])
                 IN  IF js = {} THEN {NoRow} ELSE { self.muY.c[j] : j \in js }
          : ix \in argwhere(self.muX, x) }

PredictCall(c, X, result, Z) ==
    [op |-> "predict", self |-> c, result |-> result, Y0 |-> <<>>, X0 |-> <<>>,
     built |-> 0, ran |-> <<>>, solved |-> 0, warned |-> FALSE, X |-> X, Z |-> Z]

(* Query matrices: at most MaxQuery rows, all with the same number of      *)
(* features.                                                               *)
Queries ==
    UNION { { X \in [1..n -> QueryRows] : \A k \in 1..n : Len(X[k]) = Len(X[1]) }
            : n \in 0..MaxQuery }

(* The loop one row short: the last entry of indy keeps the 0 of          *)
(* np.zeros_like, the first target bin.                                    *)
Predict_SkipLast(c, X) ==
    /\ UNCHANGED <<otc, args, heap>>
    /\ IF ~otc[c].muX.built
       THEN last' = PredictCall(c, X, "error", <<>>)
       ELSE /\ \A k \in 1..Len(X) : Len(X[k]) = Len(otc[c].muX.bin_width)
            /\ \E Z \in [1..Len(X) -> UNION { PredictRow(otc[c], X[k]) : k \in 1..Len(X) }
                                       \cup { otc[c].muY.c[1] }] :
                 /\ \A k \in 1..Len(X) :
                       IF k < Len(X) THEN Z[k] \in PredictRow(otc[c], X[k])
                       ELSE Z[k] = otc[c].muY.c[1]
                 /\ last' = IF \E k \in 1..Len(X) : Z[k] = NoRow
                            THEN PredictCall(c, X, "error", <<>>)
                            ELSE PredictCall(c, X, "ok", Z)

(* predict storing the histogram of its query as muX. *)
Predict_Rebins(c, X) ==
    /\ UNCHANGED <<args, heap>>
    /\ IF ~otc[c].muX.built
       THEN /\ last' = PredictCall(c, X, "error", <<>>)
            /\ otc' = otc
       ELSE /\ \A k \in 1..Len(X) : Len(X[k]) = Len(otc[c].muX.bin_width)
            /\ otc' = IF X = <<>> THEN otc
                      ELSE [otc EXCEPT ![c].muX =
                              SparseHist(X, otc[c].bin_width, otc[c].bin_origin)]
            /\ \E Z \in [1..Len(X) -> UNION { PredictRow(otc[c], X[k]) : k \in 1..Len(X) }] :
                 /\ \A k \in 1..Len(X) : Z[k] \in PredictRow(otc[c], X[k])
                 /\ last' = IF \E k \in 1..Len(X) : Z[k] = NoRow
                            THEN PredictCall(c, X, "error", <<>>)
                            ELSE PredictCall(c, X, "ok", Z)

(* predict( X ) on corrector c.  Without muX, argwhere cannot be called.   *)
Predict(c, X) ==
    /\ UNCHANGED <<otc, args, heap>>
    /\ IF ~otc[c].muX.built
       THEN last' = PredictCall(c, X, "error", <<>>)
       ELSE /\ \A k \in 1..Len(X) : Len(X[k]) = Len(otc[c].muX.bin_width)
            /\ \E Z \in [1..Len(X) -> UNION { PredictRow(otc[c], X[k]) : k \in 1..Len(X) }] :
                 /\ \A k \in 1..Len(X) : Z[k] \in PredictRow(otc[c], X[k])
                 /\ last' = IF \E k \in 1..Len(X) : Z[k] = NoRow
                            THEN PredictCall(c, X, "error", <<>>)
                            ELSE PredictCall(c, X, "ok", Z)

(***************************************************************************)
(* Specifications.                                                         *)
(***************************************************************************)

(* Y0 and X0 of one call have the same number of features. *)
FitInputs(S) == { yx \in S \X S : n_features(yx[1]) = n_features(yx[2]) }

Init == InitWith({1}, WidthArgs, OriginArgs, OtArgs)

Next ==
    \/ \E c \in DOMAIN otc : \E yx \in FitInputs(Samples) : Fit(c, yx[1], yx[2])
    \/ \E c \in DOMAIN otc : \E X \in Queries : Predict(c, X)

Spec == Init /\ [][Next]_vars

(* Two correctors constructed without a grid, on one-feature data. *)
InitTwo == InitWith({1, 2}, {None}, {None}, OtArgs)

SamplesTwo == { << <<0>>, <<3>> >> }

QueriesTwo == { X \in Queries : Len(X) = 1 /\ X[1] = <<0>> }

NextTwo ==
    \/ \E c \in DOMAIN otc : \E Y0 \in SamplesTwo : Fit(c, Y0, Y0)
    \/ \E c \in DOMAIN otc : \E X \in QueriesTwo : Predict(c, X)

SpecTwo == InitTwo /\ [][NextTwo]_vars

(* The caller runs the solver object corrector c holds, on the histograms  *)
(* of c, outside any fit: c._ot.fit( c.muX , c.muY ).                      *)
SolveCall(c, result, ran) ==
    [op |-> "solve", self |-> c, result |-> result, Y0 |-> <<>>, X0 |-> <<>>,
     built |-> 0, ran |-> ran, solved |-> 0, warned |-> FALSE, X |-> <<>>, Z |-> <<>>]

DirectSolve(c) ==
    /\ otc[c].muX.built
    /\ \E r \in SolveOutcomes(heap[otc[c].ot].kind, otc[c].muX, otc[c].muY) :
         /\ heap' = [heap EXCEPT ![otc[c].ot] =
                        IF r.raised THEN @
                        ELSE [@ EXCEPT !.state = r.state, !.plan = r.plan]]
         /\ last' = SolveCall(c, IF r.raised THEN "error" ELSE "ok", <<otc[c].ot>>)
    /\ UNCHANGED <<otc, args>>

(* Two correctors, and a caller who also runs their solver objects; the   *)
(* reference data fall in two bins, the biased data in one.                *)
FitInputsDirect == { << << <<0>>, <<3>> >>, << <<0>> >> >> }

NextDirect ==
    \/ \E c \in DOMAIN otc : \E yx \in FitInputsDirect : Fit(c, yx[1], yx[2])
    \/ \E c \in DOMAIN otc : \E X \in QueriesTwo : Predict(c, X)
    \/ \E c \in DOMAIN otc : DirectSolve(c)

SpecDirect == InitTwo /\ [][NextDirect]_vars

(***************************************************************************)
(* Properties.                                                             *)
(***************************************************************************)

Self == otc[last.self]

(* The solver object the constructor of corrector c was given. *)
Configured(c) == IF args[c].ot = "default" THEN DefaultOT ELSE ArgOT(c)

(* C1: in a fit whose first solve returned, a false state flag means the   *)
(* warning, exactly one more solve, on a new OTSinkhornLogDual object and  *)
(* the same histograms, the plan of that object, and a fit that returns;   *)
(* a true state flag means no second solve and the plan of the first       *)
(* solver.                                                                 *)
C1_FallbackOnce ==
    (last.op = "fit" /\ last.solved >= 1) =>
        LET first == last.ran[1]
        IN  IF ~heap[first].state
            THEN /\ last.warned
                 /\ Len(last.ran) = 2 /\ last.solved = 2
                 /\ last.ran[2] # first
                 /\ last.ran[2] = FallbackOT(last.self)
                 /\ heap[last.ran[2]].kind = "OTSinkhornLogDual"
                 /\ heap[last.ran[2]].by = last.self
                 /\ Len(heap[last.ran[2]].plan) = size(Self.muX)
                 /\ \A i \in 1..size(Self.muX) :
                        Len(heap[last.ran[2]].plan[i]) = size(Self.muY)
                 /\ Self.ot = last.ran[2]
                 /\ Self.plan = Normalize(heap[last.ran[2]].plan)
                 /\ last.result = "ok"
            ELSE /\ ~last.warned
                 /\ Len(last.ran) = 1 /\ last.solved = 1
                 /\ Self.ot = first
                 /\ Self.plan = Normalize(heap[first].plan)
                 /\ last.result = "ok"

(* A fit took the fallback and returned. *)
C1_Witness ==
    /\ last.op = "fit" /\ last.result = "ok" /\ last.warned
    /\ Len(last.ran) = 2 /\ ~heap[last.ran[1]].state
    /\ Self.plan # None

(* C2: after a fit that returns, every row of the stored plan sums to 1,   *)
(* has no negative entry, and is the raw row of the solver divided by its  *)
(* sum.                                                                    *)
C2_RowStochastic ==
    (last.op = "fit" /\ last.result = "ok") =>
        /\ Self.plan = Normalize(heap[Self.ot].plan)
        /\ \A i \in 1..Len(Self.plan) :
              /\ FracSum(Self.plan[i]) = <<1, 1>>
              /\ \A j \in 1..Len(Self.plan[i]) :
                    ~IsNaN(Self.plan[i][j]) /\ Self.plan[i][j][1] >= 0

(* C3: every row predict returns is the center of an occupied bin of muY;  *)
(* for a query row in the occupied source bin i it is the center of a      *)
(* target bin j with plan entry (i,j) > 0.                                 *)
C3_PredictReturnsTargetCenters ==
    (last.op = "predict" /\ last.result = "ok") =>
        /\ Len(last.Z) = Len(last.X)
        /\ \A k \in 1..Len(last.Z) :
              /\ \E j \in 1..size(Self.muY) : last.Z[k] = Self.muY.c[j]
              /\ InSupport(Self.muX, last.X[k]) =>
                    \E i \in argwhere(Self.muX, last.X[k]) :
                    \E j \in 1..size(Self.muY) :
                        /\ last.Z[k] = Self.muY.c[j]
                        /\ ~IsNaN(Self.plan[i][j])
                        /\ Self.plan[i][j][1] > 0

(* predict returned two rows for queries in occupied bins, from a plan     *)
(* that excludes some target bin for one of them.                          *)
C3_Witness ==
    /\ last.op = "predict" /\ last.result = "ok" /\ Len(last.Z) = 2
    /\ \A k \in 1..2 : InSupport(Self.muX, last.X[k])
    /\ \E k \in 1..2 : \E i \in argwhere(Self.muX, last.X[k]) :
       \E j \in 1..size(Self.muY) : Self.plan[i][j] = <<0, 1>>

(* C4: no fit returns with a stored plan that holds an undefined row, the  *)
(* row of a source bin whose raw row sums to zero.                         *)
C4_NoUndefinedRow ==
    (last.op = "fit" /\ last.result = "ok") =>
        \A i \in 1..Len(Self.plan) : \A j \in 1..Len(Self.plan[i]) :
            ~IsNaN(Self.plan[i][j])

(* C5: predict on a corrector on which no fit has completed (its plan is   *)
(* still None) ends with an error and returns nothing.                     *)
C5_PredictBeforeFitRejected ==
    (last.op = "predict" /\ Self.plan = None) =>
        (last.result = "error" /\ last.Z = <<>>)

(* C6: no fit of one corrector changes the solver object held by another:  *)
(* the solver object a corrector holds was run by its own fits only.       *)
C6_NoSharedSolver ==
    \A b \in DOMAIN otc : heap[otc[b].ot].by \in {0, b}

(* C7: the solver a fit runs first is the one given to the constructor,    *)
(* also after an earlier fit of the corrector took the fallback.           *)
C7_ConfiguredSolverFirst ==
    (last.op = "fit" /\ last.ran # <<>>) => last.ran[1] = Configured(last.self)

(* The bin width the claim C8 names for the last call of fit. *)
ExpectedBinWidth ==
    IF args[last.self].bin_width # None
    THEN args[last.self].bin_width
    ELSE bin_width_estimator(last.Y0, last.X0)

(* C8: in every fit, the bin width of both histograms is the one given to  *)
(* the constructor and otherwise the estimate from the Y0 and X0 of that   *)
(* call.                                                                   *)
C8_BinWidthPerCall ==
    (last.op = "fit" /\ last.built = 2) =>
        /\ Self.muY.bin_width = ExpectedBinWidth
        /\ Self.muX.bin_width = ExpectedBinWidth

(* The grid of the last call of fit does not fit its data: a length that   *)
(* is not the number of features, or a width that is not positive, in the  *)
(* vectors given to the constructor or in those stored on the corrector.   *)
BadGrid ==
    LET d == n_features(last.Y0)
        a == args[last.self]
        Bad(w, o) == \/ w # None /\ Len(w) # d
                     \/ o # None /\ Len(o) # d
                     \/ \E i \in 1..Len(w) : w[i] <= 0
    IN  Bad(a.bin_width, a.bin_origin) \/ Bad(Self.bin_width, Self.bin_origin)

C10_SharedGrid ==
    (last.op = "fit" /\ last.result = "ok") =>
        /\ Self.muY.built /\ Self.muX.built
        /\ Self.muY.bin_width = Self.bin_width
        /\ Self.muX.bin_width = Self.bin_width
        /\ Self.muY.bin_origin = Self.bin_origin
        /\ Self.muX.bin_origin = Self.bin_origin
        /\ args[last.self].bin_origin = None =>
              Self.bin_origin = zeros(Len(Self.bin_width))

(* A fit returned on a corrector given a bin_origin that is not zero. *)
C10_Witness ==
    /\ last.op = "fit" /\ last.result = "ok"
    /\ args[last.self].bin_origin = <<1>>
    /\ Self.muX.bin_origin = <<1>>

C12_PlanMatchesHistograms ==
    \A c \in DOMAIN otc :
        otc[c].plan # None =>
            /\ Len(otc[c].plan) = size(otc[c].muX)
            /\ \A i \in 1..Len(otc[c].plan) : Len(otc[c].plan[i]) = size(otc[c].muY)

(* C13: a call of predict leaves bin_width, bin_origin, muX, muY, the plan *)
(* and the solver of every corrector as they were, so the rows predict can *)
(* return for a query row are the same after the call as before.           *)
C13_PredictFrame ==
    [][last'.op = "predict" =>
          /\ otc' = otc
          /\ heap' = heap
          /\ \A c \in DOMAIN otc : \A x \in QueryRows :
                (otc[c].muX.built /\ Len(x) = Len(otc[c].muX.bin_width)) =>
                    PredictRow(otc'[c], x) = PredictRow(otc[c], x)]_vars

(* predict returned a row drawn from a plan row that allows two target     *)
(* bins.                                                                   *)
C13_Witness ==
    /\ last.op = "predict" /\ last.result = "ok" /\ Len(last.Z) >= 1
    /\ InSupport(Self.muX, last.X[1])
    /\ Cardinality(PredictRow(Self, last.X[1])) = 2

(* C14: the plan stored on a corrector is its own copy: a run of the       *)
(* solver object it was taken from, by the caller or by the fit of another *)
(* corrector, leaves the stored plan as it was.                            *)
C14_PlanIsCopy ==
    [][\A c \in DOMAIN otc :
          (last'.op = "solve" \/ (last'.op = "fit" /\ last'.self # c)) =>
              otc'[c].plan = otc[c].plan]_vars

(* The solver object a corrector took its plan from has been run again,    *)
(* by the caller or by the fit of the other corrector, and now holds       *)
(* another plan than the one stored on the corrector.                      *)
C14_Witness ==
    \E c \in DOMAIN otc :
        /\ last.op = "solve" \/ (last.op = "fit" /\ last.self # c)
        /\ last.result = "ok"
        /\ last.ran = <<otc[c].ot>>
        /\ otc[c].plan # None
        /\ heap[otc[c].ot].state
        /\ otc[c].plan # Normalize(heap[otc[c].ot].plan)

====
